---- MODULE Spec2Model ----
(***************************************************************************)
(* Call-correlation and callback-dispatch engine of tauri-swift-runtime    *)
(* (src/src-rs/desktop.rs): the id allocator PENDING_PLUGIN_CALLS_ID, the  *)
(* registries PENDING_PLUGIN_CALLS and CHANNELS, run_command, the blocking *)
(* facade run_swift_plugin and the two extern "C" entry points             *)
(* plugin_command_response_handler and send_channel_data_handler.          *)
(*                                                                         *)
(* Host threads execute run_swift_plugin step by step; native threads call *)
(* the entry points with arbitrary arguments.  A step is one atomic        *)
(* operation of the code: a fetch_add, one critical section of a mutex, or *)
(* the code that runs while a MutexGuard is alive.                         *)
(*                                                                         *)
(* Payloads are within the FFI contract of the entry points: non-null,     *)
(* NUL-terminated UTF-8 (the assert! and to_str().unwrap() never fire).    *)
(***************************************************************************)
EXTENDS Integers, Sequences, FiniteSets, TLC

(***************************************************************************)
(* Bounds                                                                  *)
(***************************************************************************)
\* total number of run_swift_plugin calls made by the host threads
MaxCalls == 2
\* total number of entry-point calls made by the native threads
MaxDeliveries == 2

\* threads are numbered; Free is the owner of an unlocked mutex
Hosts == {1, 2}
Natives == {11, 12}
Free == 0

(***************************************************************************)
(* i32 arithmetic of the AtomicI32 counter                                 *)
(***************************************************************************)
I32Max == 2147483647
I32Min == (-2147483647) - 1

\* a counter that saturates at i32::MAX instead of wrapping
SaturatingAdd1(x) == IF x = I32Max THEN I32Max ELSE x + 1

\* AtomicI32::fetch_add wraps around on overflow
WrappingAdd1(x) == IF x = I32Max THEN I32Min ELSE x + 1

\* values of the counter at which the modelled window of calls starts: the
\* initial AtomicI32::new(0), and i32::MAX, where the counter wraps
StartIds == {0, I32Max}

\* an id the allocator does not hand out within the modelled calls
NeverIssuedId == 77

\* success flags native code may pass (c_int)
Flags == {0, 1, -1, 2}

(***************************************************************************)
(* JSON values (serde_json::Value) and the raw payloads of native code     *)
(***************************************************************************)
JNum(n) == [t |-> "number", n |-> n, s |-> ""]
JStr(s) == [t |-> "string", n |-> 0, s |-> s]
JObj(f) == [t |-> "object", fields |-> f]

PayloadT == "{\"x\":1}"
PayloadError == "{\"code\":\"E1\",\"message\":\"bad\"}"
PayloadNumber == "7"
PayloadNotJson == "not json"
RawPayloads == {PayloadT, PayloadError, PayloadNumber, PayloadNotJson}
\* payloads native code passes to send_channel_data_handler
ChannelPayloads == {PayloadT, PayloadNotJson}

\* serde_json::from_str::<Value>: Ok(value) or Err(parse failure)
from_str(json) ==
  CASE json = PayloadT -> [ok |-> TRUE, value |-> JObj([x |-> JNum(1)])]
    [] json = PayloadError ->
         [ok |-> TRUE,
          value |-> JObj([code |-> JStr("E1"), message |-> JStr("bad")])]
    [] json = PayloadNumber -> [ok |-> TRUE, value |-> JNum(7)]
    [] OTHER -> [ok |-> FALSE, err |-> "expected ident at line 1 column 2"]

\* format!("{err}, data: {json}").into(): a JSON string built from the parse
\* failure and the raw payload
DecodeErrorText(err, json) == JStr(err \o ", data: " \o json)

POk(v) == [tag |-> "Ok", v |-> v]
PErr(v) == [tag |-> "Err", v |-> v]

\* serde_json::from_value::<T>, for the result shape the caller requests:
\* T is a struct with one numeric field x
from_value_T(v) ==
  IF v.t = "object" /\ "x" \in DOMAIN v.fields /\ v.fields["x"].t = "number"
  THEN [ok |-> TRUE, value |-> [x |-> v.fields["x"].n]]
  ELSE [ok |-> FALSE]

\* an Option<String> field of ErrorResponse: absent -> None, string -> Some
OptField(v, name) ==
  IF name \in DOMAIN v.fields THEN <<v.fields[name].s>> ELSE <<>>

OptFieldOk(v, name) ==
  name \in DOMAIN v.fields => v.fields[name].t = "string"

\* serde_json::from_value::<ErrorResponse>: a JSON object whose code and
\* message, when present, are strings
from_value_ErrorResponse(v) ==
  IF v.t = "object" /\ OptFieldOk(v, "code") /\ OptFieldOk(v, "message")
  THEN [ok |-> TRUE,
        value |-> [code |-> OptField(v, "code"),
                   message |-> OptField(v, "message")]]
  ELSE [ok |-> FALSE]

\* PluginInvokeError and the Ok result of run_swift_plugin
ResOk(v) == [tag |-> "Ok", value |-> v]
InvokeRejected(e) == [tag |-> "InvokeRejected", value |-> e]
CannotDeserializeResponse == [tag |-> "CannotDeserializeResponse"]
UnreachableWebview == [tag |-> "UnreachableWebview"]
CannotSerializePayload == [tag |-> "CannotSerializePayload"]
\* run_swift_plugin has not returned
NoResult == [tag |-> "none"]

(***************************************************************************)
(* State                                                                   *)
(***************************************************************************)
VARIABLES
  nextId,        \* PENDING_PLUGIN_CALLS_ID
  pending,       \* PENDING_PLUGIN_CALLS: id -> stored handler, named by the
                 \* host thread whose call created it
  pendingLock,   \* owner of the PENDING_PLUGIN_CALLS mutex, or Free
  channels,      \* CHANNELS: channel id (u32) -> sink
  channelsLock,  \* owner of the CHANNELS mutex, or Free
  sends,         \* sink -> number of Channel::send calls
  proc,          \* "running", or "aborted" once a panic aborted the process
  hpc,           \* host thread -> position in run_swift_plugin
  hid,           \* host thread -> the local `id` of run_command
  ncalls,        \* number of run_swift_plugin calls started
  issued,        \* the ids returned by fetch_add, in order
  dispatched,    \* the ids handed to swift_run_plugin_command
  chan,          \* host thread -> contents of the mpsc channel (tx, rx)
  received,      \* host thread -> what the completion action of its current
                 \* call was invoked with
  result,        \* host thread -> value its last run_swift_plugin returned
  npc,           \* native thread -> position in an entry point
  narg,          \* native thread -> arguments of its entry-point call
  ntaken,        \* native thread -> `handler` bound by the if let
  ndeliv,        \* number of entry-point calls made
  last           \* the most recent entry-point call and its outcome

hostVars == <<hpc, hid, ncalls, issued, dispatched, result>>
pendingVars == <<nextId, pending, pendingLock, chan, received>>
channelVars == <<channels, channelsLock, sends>>
nativeVars == <<npc, narg, ntaken, ndeliv, last>>
faultVars == <<proc>>
vars == <<hostVars, pendingVars, channelVars, nativeVars, faultVars>>

\* channel ids the owner of the channels registers; id 2 never is
ChannelIds == {1}
\* the sink registered under a channel id
SinkOf(c) == IF c = 1 THEN "s1" ELSE "s2"
Sinks == {SinkOf(c) : c \in ChannelIds}
\* c_ulonglong channel ids as (high 32 bits, low 32 bits)
DeliveryIds == {[hi |-> 0, lo |-> 1], [hi |-> 0, lo |-> 2], [hi |-> 1, lo |-> 1]}

\* a checked conversion, u32::try_from(id): an identifier above the 32-bit
\* range names no channel
AsU32Try(id) == IF id.hi = 0 THEN id.lo ELSE -1
\* `id as u32`: the low 32 bits
AsU32(id) == id.lo

NoArg == [id |-> 0, hi |-> 0, success |-> 0, payload |-> ""]
NoEvent == [op |-> "none", id |-> 0, hi |-> 0, outcome |-> "none"]
Event(op, a, outcome) ==
  [op |-> op, id |-> a.id, hi |-> a.hi, outcome |-> outcome]

\* map helpers: HashMap::insert (stores or replaces) and HashMap::remove
MapInsert(m, k, v) == [x \in DOMAIN m \cup {k} |-> IF x = k THEN v ELSE m[x]]
\* a remove that takes nothing out of the map
MapRemoveNone(m, k) == m
MapRemove(m, k) == [x \in DOMAIN m \ {k} |-> m[x]]
EmptyMap == [x \in {} |-> 0]

Init ==
  /\ nextId \in StartIds
  /\ pending = EmptyMap
  /\ pendingLock = Free
  /\ channels = EmptyMap
  /\ channelsLock = Free
  /\ sends = [s \in Sinks |-> 0]
  /\ proc = "running"
  /\ hpc = [h \in Hosts |-> "idle"]
  /\ hid = [h \in Hosts |-> 0]
  /\ ncalls = 0
  /\ issued = <<>>
  /\ dispatched = {}
  /\ chan = [h \in Hosts |-> <<>>]
  /\ received = [h \in Hosts |-> <<>>]
  /\ result = [h \in Hosts |-> NoResult]
  /\ npc = [n \in Natives |-> "idle"]
  /\ narg = [n \in Natives |-> NoArg]
  /\ ntaken = [n \in Natives |-> 0]
  /\ ndeliv = 0
  /\ last = NoEvent

(***************************************************************************)
(* run_swift_plugin and run_command, executed by a host thread             *)
(***************************************************************************)
SetPc(h, pc) == hpc' = [hpc EXCEPT ![h] = pc]

\* idle threads are interchangeable: a new call is made by the first idle
\* thread in a fixed order
FirstIdle(t, threads, pc) ==
  /\ pc[t] = "idle"
  /\ \A u \in threads : pc[u] = "idle" => ~(u < t)

\* the order of steps in which the id is allocated and the action stored
\* before the payload is serialized, and the failure returns at once
RunSwiftPluginSerializeErrResidual(h) ==
  /\ proc = "running"
  /\ FirstIdle(h, Hosts, hpc)
  /\ ncalls < MaxCalls
  /\ pendingLock = Free
  /\ ncalls' = ncalls + 1
  /\ nextId' = WrappingAdd1(nextId)
  /\ issued' = Append(issued, nextId)
  /\ pending' = MapInsert(pending, nextId, h)
  /\ result' = [result EXCEPT ![h] = CannotSerializePayload]
  /\ UNCHANGED <<hpc, hid, dispatched>>
  /\ UNCHANGED <<pendingLock, chan, received>>
  /\ UNCHANGED <<channelVars, nativeVars, faultVars>>

\* run_swift_plugin whose payload does not serialize: channel(), then
\* serde_json::to_value(payload) fails and `?` returns before run_command
RunSwiftPluginSerializeErr(h) ==
  /\ proc = "running"
  /\ FirstIdle(h, Hosts, hpc)
  /\ ncalls < MaxCalls
  /\ ncalls' = ncalls + 1
  /\ result' = [result EXCEPT ![h] = CannotSerializePayload]
  /\ UNCHANGED <<hpc, hid, issued, dispatched>>
  /\ UNCHANGED <<pendingVars, channelVars, nativeVars, faultVars>>

\* run_swift_plugin whose payload serializes, up to the first statement of
\* run_command: let id = PENDING_PLUGIN_CALLS_ID.fetch_add(1, Relaxed)
RunCommandFetchAdd(h) ==
  /\ proc = "running"
  /\ FirstIdle(h, Hosts, hpc)
  /\ ncalls < MaxCalls
  /\ ncalls' = ncalls + 1
  /\ result' = [result EXCEPT ![h] = NoResult]
  /\ hid' = [hid EXCEPT ![h] = nextId]
  /\ nextId' = WrappingAdd1(nextId)
  /\ issued' = Append(issued, nextId)
  /\ SetPc(h, "insert")
  /\ UNCHANGED <<dispatched>>
  /\ UNCHANGED <<pending, pendingLock, chan, received>>
  /\ UNCHANGED <<channelVars, nativeVars, faultVars>>

\* a key taken from a fresh load of the counter instead of the local `id`
InsertKeyReload(h) == nextId

\* the key of the insert: the local `id`
InsertKey(h) == hid[h]

\* a run_command that goes on to native dispatch without having stored
\* the handler
RunCommandInsertDeferred(h) ==
  /\ proc = "running"
  /\ hpc[h] = "insert"
  /\ pendingLock = Free
  /\ SetPc(h, "dispatch")
  /\ UNCHANGED <<hid, ncalls, issued, dispatched, result>>
  /\ UNCHANGED <<nextId, pending, pendingLock, chan, received>>
  /\ UNCHANGED <<channelVars, nativeVars, faultVars>>

\* PENDING_PLUGIN_CALLS.lock().unwrap().insert(id, Box::new(handler)): one
\* critical section; the stored handler is the closure of this call
RunCommandInsert(h) ==
  /\ proc = "running"
  /\ hpc[h] = "insert"
  /\ pendingLock = Free
  /\ pending' = MapInsert(pending, InsertKey(h), h)
  /\ SetPc(h, "dispatch")
  /\ UNCHANGED <<hid, ncalls, issued, dispatched, result>>
  /\ UNCHANGED <<nextId, pendingLock, chan, received>>
  /\ UNCHANGED <<channelVars, nativeVars, faultVars>>

\* swift_run_plugin_command(id, ...), then Ok(()) back in run_swift_plugin
RunCommandDispatch(h) ==
  /\ proc = "running"
  /\ hpc[h] = "dispatch"
  /\ dispatched' = dispatched \cup {hid[h]}
  /\ SetPc(h, "recv")
  /\ UNCHANGED <<hid, ncalls, issued, result>>
  /\ UNCHANGED <<pendingVars, channelVars, nativeVars, faultVars>>

\* swift_run_plugin_command(id, ...) when the native-dispatch collaborator
\* cannot reach its target: the call has no result the code looks at, and
\* run_command goes on to Ok(()) as it does after a dispatch that succeeded
RunCommandDispatchUnreachable(h) ==
  /\ proc = "running"
  /\ hpc[h] = "dispatch"
  /\ last' = Event("dispatch", [id |-> hid[h], hi |-> 0], "unreachable")
  /\ SetPc(h, "recv")
  /\ UNCHANGED <<hid, ncalls, issued, dispatched, result>>
  /\ UNCHANGED <<npc, narg, ntaken, ndeliv>>
  /\ UNCHANGED <<pendingVars, channelVars, faultVars>>

\* a match that reports an undecodable error payload as a rejection
\* without code and message
FacadeLenient(response) ==
  IF response.tag = "Ok"
  THEN LET d == from_value_T(response.v)
       IN IF d.ok THEN ResOk(d.value) ELSE CannotDeserializeResponse
  ELSE LET d == from_value_ErrorResponse(response.v)
       IN IF d.ok THEN InvokeRejected(d.value)
          ELSE InvokeRejected([code |-> <<>>, message |-> <<>>])

\* the match on the response in run_swift_plugin
Facade(response) ==
  IF response.tag = "Ok"
  THEN LET d == from_value_T(response.v)
       IN IF d.ok THEN ResOk(d.value) ELSE CannotDeserializeResponse
  ELSE LET d == from_value_ErrorResponse(response.v)
       IN IF d.ok THEN InvokeRejected(d.value) ELSE CannotDeserializeResponse

\* a receive that gives up waiting: rx.recv_timeout(..) with the timeout
\* reported as a failed response
RunSwiftPluginRecvTimeout(h) ==
  /\ proc = "running"
  /\ hpc[h] = "recv"
  /\ result' = [result EXCEPT ![h] =
       IF chan[h] # <<>> THEN Facade(Head(chan[h]))
       ELSE CannotDeserializeResponse]
  /\ chan' = [chan EXCEPT ![h] = <<>>]
  /\ received' = [received EXCEPT ![h] = <<>>]
  /\ SetPc(h, "idle")
  /\ hid' = [hid EXCEPT ![h] = 0]
  /\ UNCHANGED <<ncalls, issued, dispatched>>
  /\ UNCHANGED <<nextId, pending, pendingLock>>
  /\ UNCHANGED <<channelVars, nativeVars, faultVars>>

\* rx.recv().unwrap() blocks until the handler has sent, then the match;
\* the call is over and its channel is dropped
RunSwiftPluginRecv(h) ==
  /\ proc = "running"
  /\ hpc[h] = "recv"
  /\ chan[h] # <<>>
  /\ result' = [result EXCEPT ![h] = Facade(Head(chan[h]))]
  /\ chan' = [chan EXCEPT ![h] = <<>>]
  /\ received' = [received EXCEPT ![h] = <<>>]
  /\ SetPc(h, "idle")
  /\ hid' = [hid EXCEPT ![h] = 0]
  /\ UNCHANGED <<ncalls, issued, dispatched>>
  /\ UNCHANGED <<nextId, pending, pendingLock>>
  /\ UNCHANGED <<channelVars, nativeVars, faultVars>>

\* the Sender of host thread h's channel exists: its closure is stored in
\* the map or bound to `handler` in a native thread
SenderAlive(h) ==
  \/ \E id \in DOMAIN pending : pending[id] = h
  \/ \E n \in Natives : npc[n] \in {"handler", "lock_insert", "lock_remove"}
                          /\ ntaken[n] = h

\* rx.recv().unwrap() when the closure was dropped without having sent (the
\* old value that insert returned for a key already present): recv
\* returns Err(RecvError), unwrap panics and the calling thread unwinds
RunSwiftPluginRecvDisconnected(h) ==
  /\ proc = "running"
  /\ hpc[h] = "recv"
  /\ chan[h] = <<>>
  /\ ~SenderAlive(h)
  /\ SetPc(h, "panicked")
  /\ UNCHANGED <<hid, ncalls, issued, dispatched, result>>
  /\ UNCHANGED <<pendingVars, channelVars, nativeVars, faultVars>>

(***************************************************************************)
(* plugin_command_response_handler, executed by a native thread            *)
(***************************************************************************)
\* a response that takes every nonzero flag for success
RespondNonZero(success, json) ==
  LET r == from_str(json)
  IN IF r.ok
     THEN IF success # 0 THEN POk(r.value) ELSE PErr(r.value)
     ELSE PErr(DecodeErrorText(r.err, json))

\* a response that falls back to the raw text when the payload does not
\* parse, and so still honours the success flag
RespondRawFallback(success, json) ==
  LET r == from_str(json)
      v == IF r.ok THEN r.value ELSE JStr(json)
  IN IF success = 1 THEN POk(v) ELSE PErr(v)

\* the PluginResponse built from the success flag and the raw payload
Respond(success, json) ==
  LET r == from_str(json)
  IN IF r.ok
     THEN IF success = 1 THEN POk(r.value) ELSE PErr(r.value)
     ELSE PErr(DecodeErrorText(r.err, json))

\* the stored handler of host h: move |response| tx.send(response).unwrap()
Handler(h, response) == [chan EXCEPT ![h] = Append(@, response)]

\* a lookup that leaves the entry in the map (get instead of remove)
TakeEntryGet(m, id) == m

\* the map after remove(&id)
TakeEntry(m, id) == MapRemove(m, id)

\* a lookup that unwraps the removed entry: remove(&id).unwrap()
ResponseLookupUnwrap(n, id, success, payload) ==
  /\ proc = "running"
  /\ FirstIdle(n, Natives, npc)
  /\ ndeliv < MaxDeliveries
  /\ pendingLock = Free
  /\ ndeliv' = ndeliv + 1
  /\ LET a == [id |-> id, hi |-> 0, success |-> success, payload |-> payload]
     IN IF id \in DOMAIN pending
        THEN /\ pending' = TakeEntry(pending, id)
             /\ pendingLock' = n
             /\ ntaken' = [ntaken EXCEPT ![n] = pending[id]]
             /\ narg' = [narg EXCEPT ![n] = a]
             /\ npc' = [npc EXCEPT ![n] = "handler"]
             /\ last' = last
             /\ proc' = proc
        ELSE /\ last' = Event("response", a, "panicked")
             /\ proc' = "aborted"
             /\ UNCHANGED <<pending, pendingLock, ntaken, narg, npc>>
  /\ UNCHANGED <<nextId, chan, received>>
  /\ UNCHANGED <<hostVars, channelVars>>

\* PENDING_PLUGIN_CALLS.lock().unwrap().remove(&id) as the scrutinee of the
\* if let: without an entry the guard is dropped and the function returns;
\* with one, the guard stays alive for the body of the if let
ResponseLookup(n, id, success, payload) ==
  /\ proc = "running"
  /\ FirstIdle(n, Natives, npc)
  /\ ndeliv < MaxDeliveries
  /\ pendingLock = Free
  /\ ndeliv' = ndeliv + 1
  /\ LET a == [id |-> id, hi |-> 0, success |-> success, payload |-> payload]
     IN IF id \in DOMAIN pending
        THEN /\ pending' = TakeEntry(pending, id)
             /\ pendingLock' = n
             /\ ntaken' = [ntaken EXCEPT ![n] = pending[id]]
             /\ narg' = [narg EXCEPT ![n] = a]
             /\ npc' = [npc EXCEPT ![n] = "handler"]
             /\ last' = last
        ELSE /\ last' = Event("response", a, "ignored")
             /\ UNCHANGED <<pending, pendingLock, ntaken, narg, npc>>
  /\ UNCHANGED <<nextId, chan, received>>
  /\ UNCHANGED <<hostVars, channelVars, faultVars>>

\* the body of the if let: decode, invoke the handler, drop the guard
ResponseHandle(n) ==
  /\ proc = "running"
  /\ npc[n] = "handler"
  /\ LET a == narg[n]
         h == ntaken[n]
         response == Respond(a.success, a.payload)
     IN /\ chan' = Handler(h, response)
        /\ received' = [received EXCEPT ![h] =
             Append(@, [id |-> a.id, success |-> a.success,
                        payload |-> a.payload, response |-> response])]
        /\ last' = Event("response", a, "invoked")
  /\ pendingLock' = Free
  /\ npc' = [npc EXCEPT ![n] = "idle"]
  /\ narg' = [narg EXCEPT ![n] = NoArg]
  /\ ntaken' = [ntaken EXCEPT ![n] = 0]
  /\ UNCHANGED <<nextId, pending, ndeliv>>
  /\ UNCHANGED <<hostVars, channelVars, faultVars>>

\* a panic that would unwind out of an extern "C" fn aborts the process
Panic == proc' = "aborted"

\* entry points a completion action may call back into
Nested == {"run_command", "plugin_command_response_handler"}

\* the body of the if let when the stored handler is a completion action
\* (any F: FnOnce(PluginResponse) + Send that run_command was given) which
\* calls back into an entry point: handler(..) runs on this thread with the
\* guard of the scrutinee alive; a nested run_command does its fetch_add,
\* then either entry point arrives at PENDING_PLUGIN_CALLS.lock()
HandlerReenters(n, nested) ==
  /\ proc = "running"
  /\ npc[n] = "handler"
  /\ IF nested = "run_command"
     THEN /\ ncalls < MaxCalls
          /\ ncalls' = ncalls + 1
          /\ nextId' = WrappingAdd1(nextId)
          /\ issued' = Append(issued, nextId)
          /\ npc' = [npc EXCEPT ![n] = "lock_insert"]
     ELSE /\ npc' = [npc EXCEPT ![n] = "lock_remove"]
          /\ UNCHANGED <<ncalls, nextId, issued>>
  /\ UNCHANGED <<hpc, hid, dispatched, result>>
  /\ UNCHANGED <<pending, pendingLock, chan, received>>
  /\ UNCHANGED <<narg, ntaken, ndeliv, last>>
  /\ UNCHANGED <<channelVars, faultVars>>

\* Mutex::lock() on a mutex the calling thread already holds does not
\* return: the thread waits forever (no step) or the call panics, which,
\* below an extern "C" fn, aborts the process
RelockPanic(n) ==
  /\ proc = "running"
  /\ npc[n] \in {"lock_insert", "lock_remove"}
  /\ pendingLock = n
  /\ Panic
  /\ UNCHANGED <<hostVars, pendingVars, channelVars, nativeVars>>

(***************************************************************************)
(* send_channel_data_handler, executed by a native thread                  *)
(***************************************************************************)
\* a lookup that indexes the map and panics on a missing key
ChannelLookupIndex(n, id, payload) ==
  /\ proc = "running"
  /\ FirstIdle(n, Natives, npc)
  /\ ndeliv < MaxDeliveries
  /\ channelsLock = Free
  /\ ndeliv' = ndeliv + 1
  /\ LET a == [id |-> id.lo, hi |-> id.hi, success |-> 0, payload |-> payload]
     IN IF AsU32(id) \in DOMAIN channels
        THEN /\ channelsLock' = n
             /\ narg' = [narg EXCEPT ![n] = a]
             /\ npc' = [npc EXCEPT ![n] = "forward"]
             /\ last' = last
             /\ proc' = proc
        ELSE /\ last' = Event("channel", a, "panicked")
             /\ proc' = "aborted"
             /\ UNCHANGED <<channelsLock, narg, npc>>
  /\ UNCHANGED <<channels, sends, ntaken>>
  /\ UNCHANGED <<hostVars, pendingVars>>

\* CHANNELS.lock().unwrap().get(&(id as u32)) as the scrutinee of the if
\* let: without an entry the function returns; with one, `channel` borrows
\* from the guard, which stays alive for the body
ChannelLookup(n, id, payload) ==
  /\ proc = "running"
  /\ FirstIdle(n, Natives, npc)
  /\ ndeliv < MaxDeliveries
  /\ channelsLock = Free
  /\ ndeliv' = ndeliv + 1
  /\ LET a == [id |-> id.lo, hi |-> id.hi, success |-> 0, payload |-> payload]
     IN IF AsU32(id) \in DOMAIN channels
        THEN /\ channelsLock' = n
             /\ narg' = [narg EXCEPT ![n] = a]
             /\ npc' = [npc EXCEPT ![n] = "forward"]
             /\ last' = last
        ELSE /\ last' = Event("channel", a, "dropped")
             /\ UNCHANGED <<channelsLock, narg, npc>>
  /\ UNCHANGED <<channels, sends, ntaken>>
  /\ UNCHANGED <<hostVars, pendingVars, faultVars>>

\* a dispatch path that consumes the channel entry after one delivery
ChannelForwardOneShot(n, open) ==
  /\ proc = "running"
  /\ npc[n] = "forward"
  /\ from_str(narg[n].payload).ok
  /\ LET sink == channels[narg[n].id]
     IN /\ sends' = [sends EXCEPT ![sink] = @ + 1]
        /\ last' = Event("channel", narg[n],
                         IF open THEN "forwarded" ELSE "send_err")
  /\ channels' = MapRemove(channels, narg[n].id)
  /\ channelsLock' = Free
  /\ npc' = [npc EXCEPT ![n] = "idle"]
  /\ narg' = [narg EXCEPT ![n] = NoArg]
  /\ UNCHANGED <<ntaken, ndeliv>>
  /\ UNCHANGED <<hostVars, pendingVars, faultVars>>

\* a forward that unwraps the result of the send:
\* channel.send(payload).unwrap() panics when the sink is closed
ChannelForwardUnwrap(n, open) ==
  /\ proc = "running"
  /\ npc[n] = "forward"
  /\ from_str(narg[n].payload).ok
  /\ LET sink == channels[narg[n].id]
     IN /\ sends' = [sends EXCEPT ![sink] = @ + 1]
        /\ last' = Event("channel", narg[n],
                         IF open THEN "forwarded" ELSE "send_err")
  /\ IF open
     THEN /\ channelsLock' = Free
          /\ npc' = [npc EXCEPT ![n] = "idle"]
          /\ narg' = [narg EXCEPT ![n] = NoArg]
          /\ proc' = proc
     ELSE /\ Panic
          /\ UNCHANGED <<channelsLock, npc, narg>>
  /\ UNCHANGED <<channels, ntaken, ndeliv>>
  /\ UNCHANGED <<hostVars, pendingVars>>

\* the body of the if let on a payload that parses:
\* let _ = channel.send(payload), then the guard is dropped; `open` is
\* whether the receiving end of the sink still exists, else send returns Err
ChannelForward(n, open) ==
  /\ proc = "running"
  /\ npc[n] = "forward"
  /\ from_str(narg[n].payload).ok
  /\ LET sink == channels[narg[n].id]
     IN /\ sends' = [sends EXCEPT ![sink] = @ + 1]
        /\ last' = Event("channel", narg[n],
                         IF open THEN "forwarded" ELSE "send_err")
  /\ channelsLock' = Free
  /\ npc' = [npc EXCEPT ![n] = "idle"]
  /\ narg' = [narg EXCEPT ![n] = NoArg]
  /\ UNCHANGED <<channels, ntaken, ndeliv>>
  /\ UNCHANGED <<hostVars, pendingVars, faultVars>>

\* the body of the if let on a payload that does not parse:
\* serde_json::from_str(..).unwrap() panics while the guard is alive
ChannelForwardPanic(n) ==
  /\ proc = "running"
  /\ npc[n] = "forward"
  /\ ~from_str(narg[n].payload).ok
  /\ last' = Event("channel", narg[n], "panicked")
  /\ Panic
  /\ UNCHANGED <<channels, channelsLock, sends, npc, narg, ntaken, ndeliv>>
  /\ UNCHANGED <<hostVars, pendingVars>>

(***************************************************************************)
(* The owner of the channels: registration and unregistration              *)
(***************************************************************************)
\* register(id, sink): stores the sink under id
RegisterChannel(c) ==
  /\ proc = "running"
  /\ channelsLock = Free
  /\ c \notin DOMAIN channels
  /\ channels' = MapInsert(channels, c, SinkOf(c))
  /\ UNCHANGED <<channelsLock, sends>>
  /\ UNCHANGED <<hostVars, pendingVars, nativeVars, faultVars>>

\* unregister(id): removes the sink
UnregisterChannel(c) ==
  /\ proc = "running"
  /\ channelsLock = Free
  /\ c \in DOMAIN channels
  /\ channels' = MapRemove(channels, c)
  /\ UNCHANGED <<channelsLock, sends>>
  /\ UNCHANGED <<hostVars, pendingVars, nativeVars, faultVars>>

\* ids native code may pass to plugin_command_response_handler: one it was
\* handed (answered or not), the one the allocator hands out next, and one
\* that is never issued
ResponseIds ==
  {issued[i] : i \in 1..Len(issued)} \cup {nextId, NeverIssuedId}

(***************************************************************************)
(* Specifications                                                          *)
(***************************************************************************)
\* the steps of run_swift_plugin and run_command
HostNext ==
  \/ \E h \in Hosts : RunSwiftPluginSerializeErr(h)
  \/ \E h \in Hosts : RunCommandFetchAdd(h)
  \/ \E h \in Hosts : RunCommandInsert(h)
  \/ \E h \in Hosts : RunCommandDispatch(h)
  \/ \E h \in Hosts : RunSwiftPluginRecv(h)

\* the steps of plugin_command_response_handler
ResponseNext ==
  \/ \E n \in Natives, id \in ResponseIds, success \in Flags,
        payload \in RawPayloads : ResponseLookup(n, id, success, payload)
  \/ \E n \in Natives : ResponseHandle(n)

\* the steps of send_channel_data_handler
DeliveryNext ==
  \/ \E n \in Natives, id \in DeliveryIds, payload \in ChannelPayloads :
        ChannelLookup(n, id, payload)
  \/ \E n \in Natives, open \in BOOLEAN : ChannelForward(n, open)
  \/ \E n \in Natives : ChannelForwardPanic(n)

\* the steps of the owner of the channels
OwnerNext ==
  \/ \E c \in ChannelIds : RegisterChannel(c)
  \/ \E c \in ChannelIds : UnregisterChannel(c)

\* the whole program
Next == HostNext \/ ResponseNext \/ DeliveryNext \/ OwnerNext

Spec == Init /\ [][Next]_vars

\* PENDING_PLUGIN_CALLS and CHANNELS are separate statics behind separate
\* mutexes, and no function touches both: run_command and
\* plugin_command_response_handler use the first only,
\* send_channel_data_handler the second only.  Two parts of the program
\* follow.

\* calls and their resolutions, with every flag and payload
NextCalls == HostNext \/ ResponseNext

SpecCalls == Init /\ [][NextCalls]_vars

\* channel deliveries, interleaved in every way with calls and their
\* resolutions; the resolutions carry one payload and a set flag, their
\* variety being the matter of SpecCalls
ResolutionNext ==
  \/ \E n \in Natives, id \in ResponseIds : ResponseLookup(n, id, 1, PayloadT)
  \/ \E n \in Natives : ResponseHandle(n)

NextDeliveries == HostNext \/ ResolutionNext \/ DeliveryNext \/ OwnerNext

SpecDeliveries == Init /\ [][NextDeliveries]_vars

\* calls whose dispatch may fail at the native-dispatch collaborator
UnreachableNext == \E h \in Hosts : RunCommandDispatchUnreachable(h)

NextUnreachable == HostNext \/ UnreachableNext \/ ResponseNext

SpecUnreachable == Init /\ [][NextUnreachable]_vars

\* calls and resolutions whose completion actions may call back into the
\* entry points
ReentrantNext ==
  \/ \E n \in Natives, nested \in Nested : HandlerReenters(n, nested)
  \/ \E n \in Natives : RelockPanic(n)

NextReentrant == HostNext \/ ResponseNext \/ ReentrantNext

SpecReentrant == Init /\ [][NextReentrant]_vars

\* calls, each answered by native code: a response is delivered for a
\* dispatched id whose call is still registered, and for no other id
AnswerNext ==
  \/ \E n \in Natives, id \in dispatched \cap DOMAIN pending,
        success \in Flags, payload \in RawPayloads :
        ResponseLookup(n, id, success, payload)
  \/ \E n \in Natives : ResponseHandle(n)

NextLive == HostNext \/ AnswerNext

\* a thread inside run_command, rx.recv() or the body of the if let keeps
\* running, and native code answers every call it was handed
Fairness ==
  /\ \A h \in Hosts : WF_vars(RunCommandInsert(h))
  /\ \A h \in Hosts : WF_vars(RunCommandDispatch(h))
  /\ \A h \in Hosts : WF_vars(RunSwiftPluginRecv(h))
  /\ \A n \in Natives : WF_vars(ResponseHandle(n))
  /\ WF_vars(\E n \in Natives, id \in dispatched \cap DOMAIN pending,
                success \in Flags, payload \in RawPayloads :
                ResponseLookup(n, id, success, payload))

SpecLive == Init /\ [][NextLive]_vars /\ Fairness

\* The counter has 2^32 values.  InitWrapped is the state in which a call
\* of host thread 1 was given the id i32::MIN, was dispatched and has not
\* been answered, and 2^32 - 1 later allocations, all of them answered,
\* have brought the counter to i32::MAX; ncalls counts the calls from here
InitWrapped ==
  /\ nextId = I32Max
  /\ pending = MapInsert(EmptyMap, I32Min, 1)
  /\ pendingLock = Free
  /\ channels = EmptyMap
  /\ channelsLock = Free
  /\ sends = [s \in Sinks |-> 0]
  /\ proc = "running"
  /\ hpc = [h \in Hosts |-> IF h = 1 THEN "recv" ELSE "idle"]
  /\ hid = [h \in Hosts |-> IF h = 1 THEN I32Min ELSE 0]
  /\ ncalls = 0
  /\ issued = <<>>
  /\ dispatched = {I32Min}
  /\ chan = [h \in Hosts |-> <<>>]
  /\ received = [h \in Hosts |-> <<>>]
  /\ result = [h \in Hosts |-> NoResult]
  /\ npc = [n \in Natives |-> "idle"]
  /\ narg = [n \in Natives |-> NoArg]
  /\ ntaken = [n \in Natives |-> 0]
  /\ ndeliv = 0
  /\ last = NoEvent

DisconnectedNext == \E h \in Hosts : RunSwiftPluginRecvDisconnected(h)

NextWrapped == HostNext \/ ResponseNext \/ DisconnectedNext

SpecWrapped == InitWrapped /\ [][NextWrapped]_vars

(***************************************************************************)
(* Properties                                                              *)
(***************************************************************************)
\* the completion action of host h's current call has been invoked
Invoked(h) == Len(received[h]) > 0

\* C1: every invocation of a stored completion action was triggered by a
\* resolution bearing the CallId of the action's own call, and the response
\* the action received is the one built from the success flag and payload
\* of that very resolution
C1_Correlation ==
  \A h \in Hosts : \A i \in 1..Len(received[h]) :
    LET e == received[h][i]
    IN /\ e.id = hid[h]
       /\ e.response.tag = (IF e.success = 1 /\ e.payload # PayloadNotJson
                            THEN "Ok" ELSE "Err")
       /\ e.payload # PayloadNotJson => e.response.v = from_str(e.payload).value

\* two calls were dispatched and are answered out of order: the action of
\* the second call has been invoked while the first call is still
\* registered and waiting
C1_Witness ==
  /\ hpc[1] = "recv"
  /\ hpc[2] = "recv"
  /\ hid[1] = I32Max
  /\ Invoked(2)
  /\ ~Invoked(1)
  /\ hid[1] \in DOMAIN pending
  /\ pending[hid[1]] = 1

\* C2: the ids obtained from PENDING_PLUGIN_CALLS_ID by different calls are
\* pairwise distinct
C2_DistinctIds ==
  \A i \in 1..Len(issued) : \A j \in 1..Len(issued) :
    i # j => issued[i] # issued[j]

\* two host threads are inside run_command at once, each with its id, and
\* the counter has passed i32::MAX between them
C2_Witness ==
  /\ \A h \in Hosts : hpc[h] = "insert"
  /\ hid[1] = I32Max
  /\ hid[2] = I32Min

\* C3: a completion action is invoked at most once; as soon as a resolution
\* has taken it, its entry is gone from the registry, and no second thread
\* holds the same action
C3_AtMostOnce ==
  \A h \in Hosts :
    LET holders == {n \in Natives : npc[n] = "handler" /\ ntaken[n] = h}
    IN /\ Len(received[h]) + Cardinality(holders) <= 1
       /\ (Invoked(h) \/ holders # {}) =>
            /\ hpc[h] \in {"dispatch", "recv"}
            /\ hid[h] \notin DOMAIN pending

\* a second resolution bearing the id of an already resolved call was
\* ignored
C3_Witness ==
  /\ hpc[1] = "recv"
  /\ Len(received[1]) = 1
  /\ last.op = "response"
  /\ last.outcome = "ignored"
  /\ last.id = hid[1]

\* C4: a plugin_command_response_handler call takes a stored action only
\* under an id that has an entry in the pending-call registry; a call whose
\* id has none returns at once: it invokes no action, raises no fault, and
\* leaves the pending-call registry and the channel registry as they are
C4_UnregisteredNoOp ==
  [][/\ \A n \in Natives :
          (npc[n] = "idle" /\ npc'[n] = "handler")
            => /\ narg'[n].id \in DOMAIN pending
               /\ ntaken'[n] = pending[narg'[n].id]
     /\ (ndeliv' = ndeliv + 1 /\ npc' = npc /\ last'.op = "response")
          => /\ last'.id \notin DOMAIN pending
             /\ UNCHANGED <<pending, channels, chan, received, sends, proc,
                            pendingLock, channelsLock>>]_vars

\* a resolution bearing a never-issued id was ignored while both registries
\* held an entry
C4_Witness ==
  /\ last.op = "response"
  /\ last.outcome = "ignored"
  /\ last.id = NeverIssuedId
  /\ DOMAIN pending # {}
  /\ DOMAIN channels # {}

\* the text serde_json reports for the payload "not json", followed by the
\* raw payload
NotJsonErr == PErr(JStr("expected ident at line 1 column 2, data: not json"))

\* C5: when a resolution of a known CallId carries a payload that is not
\* JSON, the entry is removed and the action is invoked exactly once with
\* Err of the text built from the parse failure and the raw payload,
\* whatever the success flag, and the process keeps running
C5_MalformedPayload ==
  [][\A n \in Natives :
       (npc[n] = "handler" /\ narg[n].payload = PayloadNotJson
          /\ npc'[n] # "handler")
         => LET h == ntaken[n]
            IN /\ received'[h] =
                    <<[id |-> narg[n].id, success |-> narg[n].success,
                       payload |-> PayloadNotJson, response |-> NotJsonErr]>>
               /\ chan'[h] = <<NotJsonErr>>
               /\ narg[n].id \notin DOMAIN pending'
               /\ proc' = "running"]_vars

\* an action was invoked for a non-JSON payload delivered with the success
\* flag set
C5_Witness ==
  \E h \in Hosts :
    /\ Len(received[h]) = 1
    /\ received[h][1].payload = PayloadNotJson
    /\ received[h][1].success = 1
    /\ received[h][1].response.tag = "Err"

\* what run_swift_plugin is to return for a resolution, case by case
ExpectedResult(success, payload) ==
  CASE payload = PayloadT /\ success = 1 -> ResOk([x |-> 1])
    [] payload = PayloadT /\ success # 1 ->
         InvokeRejected([code |-> <<>>, message |-> <<>>])
    [] payload = PayloadError /\ success # 1 ->
         InvokeRejected([code |-> <<"E1">>, message |-> <<"bad">>])
    [] OTHER -> CannotDeserializeResponse

\* C6: run_swift_plugin returns Ok(value) for a set flag and a payload of
\* shape T, Err(InvokeRejected) with the code and message for a clear flag
\* and a payload decodable as ErrorResponse, and
\* Err(CannotDeserializeResponse) for a payload that is not JSON or not of
\* the shape its branch asks for
C6_FacadeMapping ==
  [][\A h \in Hosts :
       (hpc[h] = "recv" /\ hpc'[h] = "idle")
         => /\ Len(received[h]) = 1
            /\ result'[h] = ExpectedResult(received[h][1].success,
                                           received[h][1].payload)]_vars

\* one call returned Ok with the decoded value, the other a rejection with
\* code and message
C6_Witness ==
  /\ result[1].tag = "Ok"
  /\ result[1].value = [x |-> 1]
  /\ result[2].tag = "InvokeRejected"
  /\ result[2].value = [code |-> <<"E1">>, message |-> <<"bad">>]

\* C7: a delivery of a decodable payload to a registered channel calls
\* Channel::send once on that channel's sink, and no step of an entry
\* point, of either kind, changes the channel registry
C7_ChannelMultiShot ==
  [][/\ \A n \in Natives :
          (npc[n] = "forward" /\ from_str(narg[n].payload).ok
             /\ npc'[n] # "forward")
            => /\ narg[n].id \in DOMAIN channels'
               /\ channels' = channels
               /\ sends' = [sends EXCEPT ![channels[narg[n].id]] = @ + 1]
     /\ (npc' # npc \/ ndeliv' # ndeliv) => channels' = channels]_vars

\* two deliveries to channel 1 produced two sends and the channel is still
\* registered, while a call is waiting for its resolution
C7_Witness ==
  /\ sends[SinkOf(1)] = 2
  /\ ndeliv = 2
  /\ 1 \in DOMAIN channels
  /\ \A n \in Natives : npc[n] = "idle"
  /\ hpc[1] = "recv"
  /\ hid[1] \in DOMAIN pending

\* C8: a send_channel_data_handler call goes on to forward only under a
\* channel id that has an entry in the channel registry; a call whose id has
\* none returns at once: it reaches no sink, raises no fault and leaves both
\* registries as they are
C8_UnregisteredChannelDropped ==
  [][/\ \A n \in Natives :
          (npc[n] = "idle" /\ npc'[n] = "forward")
            => narg'[n].id \in DOMAIN channels
     /\ (ndeliv' = ndeliv + 1 /\ npc' = npc /\ last'.op = "channel")
          => /\ last'.id \notin DOMAIN channels
             /\ UNCHANGED <<pending, channels, chan, received, sends, proc,
                            pendingLock, channelsLock>>]_vars

\* channel 1 received a message, was unregistered, and a later delivery to
\* it was dropped while the pending-call registry held an entry
C8_Witness ==
  /\ last.op = "channel"
  /\ last.outcome = "dropped"
  /\ last.id = 1
  /\ last.hi = 0
  /\ 1 \notin DOMAIN channels
  /\ sends[SinkOf(1)] = 1
  /\ DOMAIN pending # {}

\* C9: no call of an entry point with a non-null payload that is not valid
\* JSON aborts or panics the process
C9_NoFaultOnInvalidPayload == proc = "running"

\* C10: a run_swift_plugin call that returns CannotSerializePayload leaves
\* the pending-call registry and the id counter as they were, stores no
\* action and never reaches native dispatch
C10_NoResidualEntry ==
  [][(ncalls' = ncalls + 1 /\ hpc' = hpc)
       => /\ \E h \in Hosts :
               /\ FirstIdle(h, Hosts, hpc)
               /\ result'[h] = CannotSerializePayload
          /\ pending' = pending
          /\ nextId' = nextId
          /\ issued' = issued
          /\ dispatched' = dispatched]_vars

\* a call failed at serialization while another call's action was stored
C10_Witness ==
  /\ result[2] = CannotSerializePayload
  /\ hpc[1] = "recv"
  /\ DOMAIN pending = {hid[1]}


\* C11: when the native-dispatch collaborator fails at invocation time,
\* run_command removes the entry it has just stored and the call returns
\* UnreachableWebview, so that the pending-call registry holds no entry for
\* the allocated id
C11_UnreachableCleanup ==
  [][\A h \in Hosts :
       (hpc[h] = "dispatch" /\ hpc'[h] # "dispatch"
          /\ last'.op = "dispatch" /\ last'.outcome = "unreachable")
         => /\ hid[h] \notin DOMAIN pending'
            /\ hpc'[h] = "idle"
            /\ result'[h] = UnreachableWebview]_vars

\* host thread h waits in rx.recv() and nothing has been sent or is about
\* to be sent to it
Blocked(h) ==
  /\ hpc[h] = "recv"
  /\ ~Invoked(h)
  /\ \A n \in Natives : ~(npc[n] = "handler" /\ ntaken[n] = h)

\* C12: run_swift_plugin returns only after a resolution bearing its own
\* CallId has invoked its completion action, and at that moment the CallId
\* is not in the pending-call registry; until then the thread stays in
\* rx.recv(), whatever other ids are resolved, and while no resolution of
\* its id has arrived its entry stays registered
C12_FacadeBlocks ==
  [][\A h \in Hosts :
       /\ (hpc[h] = "recv" /\ hpc'[h] # "recv")
            => /\ Len(received[h]) = 1
               /\ received[h][1].id = hid[h]
               /\ hid[h] \notin DOMAIN pending
       /\ (hpc[h] = "recv" /\ ~Invoked(h)) => hpc'[h] = "recv"
       /\ Blocked(h)' => /\ hid'[h] \in DOMAIN pending'
                         /\ pending'[hid'[h]] = h]_vars

\* the second call has returned after its own resolution, while the first
\* call, dispatched earlier, is still blocked with its entry registered
C12_Witness ==
  /\ Blocked(1)
  /\ hid[1] \in DOMAIN pending
  /\ hpc[2] = "idle"
  /\ result[2].tag = "Ok"
  /\ last.op = "response"
  /\ last.outcome = "invoked"
  /\ last.id # hid[1]

\* C13: no thread holds a registry lock while it executes a completion
\* action or decodes the payload for it (position "handler"), or while it
\* decodes and forwards a message to a sink (position "forward")
C13_NoLockDuringAction ==
  \A n \in Natives :
    /\ npc[n] = "handler" => pendingLock # n
    /\ npc[n] = "forward" => channelsLock # n

\* C14: a completion action that calls back into run_command or into
\* plugin_command_response_handler on its own thread does not find the
\* pending-call registry locked by that thread: no thread is ever at lock()
\* of a mutex it holds itself
C14_NoSelfDeadlock ==
  \A n \in Natives :
    npc[n] \in {"lock_insert", "lock_remove"} => pendingLock # n

\* the pending-call registry holds the entry of host thread h's call
Registered(h) == \E id \in DOMAIN pending : pending[id] = h

\* C15: when native code answers every dispatched call, every entry stored
\* in the pending-call registry is eventually removed, and whenever no call
\* is in progress the registry is empty
C15_LeakFreedom ==
  /\ \A h \in Hosts : Registered(h) ~> ~Registered(h)
  /\ []((\A h \in Hosts : hpc[h] = "idle") => DOMAIN pending = {})

\* two calls were stored, dispatched and answered, both have returned and
\* the registry is empty
C15_Witness ==
  /\ Len(issued) = 2
  /\ Cardinality(dispatched) = 2
  /\ \A h \in Hosts : hpc[h] = "idle"
  /\ result[1].tag # "none"
  /\ result[2].tag # "none"
  /\ DOMAIN pending = {}

\* the call of host thread h has stored its handler and no resolution has
\* taken it yet
Awaiting(h) ==
  /\ hpc[h] \in {"dispatch", "recv"}
  /\ ~Invoked(h)
  /\ \A n \in Natives : ~(npc[n] = "handler" /\ ntaken[n] = h)

\* C16: when run_command hands a request to native dispatch its handler has
\* already been stored under the id; a resolution takes a handler only
\* after the insert of its call; and a response for the id of a call that
\* is at or past dispatch and not yet resolved is never ignored
C16_StoredBeforeDispatch ==
  [][/\ \A h \in Hosts :
          (hpc[h] = "dispatch" /\ hpc'[h] = "recv")
            => /\ hid[h] \in dispatched'
               /\ Awaiting(h) => /\ hid[h] \in DOMAIN pending
                                 /\ pending[hid[h]] = h
     /\ \A n \in Natives :
          (npc[n] = "idle" /\ npc'[n] = "handler")
            => hpc[ntaken'[n]] \in {"dispatch", "recv"}
     /\ (ndeliv' = ndeliv + 1 /\ npc' = npc /\ last'.op = "response")
          => ~\E h \in Hosts : Awaiting(h) /\ hid[h] = last'.id]_vars

\* a response delivered from another thread before run_command returned
\* from native dispatch found the entry and invoked the action
C16_Witness ==
  /\ hpc[1] = "dispatch"
  /\ hid[1] \notin dispatched
  /\ Len(received[1]) = 1
  /\ received[1][1].id = hid[1]
  /\ hid[1] \notin DOMAIN pending

\* C17: storing a handler never replaces one that is still stored: the
\* insert of run_command finds its id absent and leaves the other entries
\* as they are, the ids of the calls in progress are pairwise distinct, and
\* no waiting call loses its handler without it having been invoked
C17_RegisterNeverReplaces ==
  [][/\ \A h \in Hosts :
          (hpc[h] = "insert" /\ hpc'[h] = "dispatch")
            => /\ hid[h] \notin DOMAIN pending
               /\ \A id \in DOMAIN pending : pending'[id] = pending[id]
     /\ \A h1 \in Hosts : \A h2 \in Hosts :
          (h1 # h2 /\ hpc[h1] \in {"insert", "dispatch", "recv"}
             /\ hpc[h2] \in {"insert", "dispatch", "recv"})
            => hid[h1] # hid[h2]
     /\ \A h \in Hosts : hpc'[h] # "panicked"]_vars

\* C18: when Channel::send fails because the sink is closed, the
\* send_channel_data_handler call returns normally: the process keeps
\* running, the thread is back with its caller and has released the lock,
\* and the channel is still registered
C18_ClosedSinkSwallowed ==
  [][\A n \in Natives :
       (npc[n] = "forward" /\ sends' # sends /\ last'.outcome = "send_err")
         => /\ proc' = "running"
            /\ npc'[n] = "idle"
            /\ channelsLock' = Free
            /\ channels' = channels
            /\ narg[n].id \in DOMAIN channels'
            /\ pending' = pending]_vars

\* a delivery to channel 1 met a closed sink, the call has returned, and
\* channel 1 is still registered
C18_Witness ==
  /\ last.op = "channel"
  /\ last.outcome = "send_err"
  /\ last.id = 1
  /\ sends[SinkOf(1)] = 1
  /\ 1 \in DOMAIN channels
  /\ proc = "running"
  /\ \A n \in Natives : npc[n] = "idle"

\* C19: for a payload that decodes, the completion action receives the
\* decoded value, as Ok when the success flag is 1 and as Err for every
\* other flag
C19_OkIffFlagIsOne ==
  [][\A n \in Natives :
       (npc[n] = "handler" /\ npc'[n] # "handler"
          /\ from_str(narg[n].payload).ok)
         => LET sent == chan'[ntaken[n]]
            IN /\ Len(sent) = 1
               /\ sent[1].v = from_str(narg[n].payload).value
               /\ narg[n].success = 1 => sent[1].tag = "Ok"
               /\ narg[n].success # 1 => sent[1].tag = "Err"]_vars

\* a decodable payload delivered with the flag 2 reached the action as Err
C19_Witness ==
  \E h \in Hosts :
    /\ Len(received[h]) = 1
    /\ received[h][1].success = 2
    /\ received[h][1].payload = PayloadT
    /\ chan[h] = <<PErr(JObj([x |-> JNum(1)]))>>

\* C20: a delivery whose 64-bit identifier lies above the 32-bit range is
\* looked up under its low 32 bits: it goes on to forward exactly when they
\* name a registered channel, it is dropped only when they name none, and
\* its message goes to the sink registered under them
C20_IdModulo ==
  [][/\ \A n \in Natives :
          (npc[n] = "idle" /\ npc'[n] = "forward" /\ narg'[n].hi # 0)
            => narg'[n].id \in DOMAIN channels
     /\ (ndeliv' = ndeliv + 1 /\ npc' = npc /\ last'.op = "channel"
           /\ last'.hi # 0)
          => last'.id \notin DOMAIN channels
     /\ \A n \in Natives :
          (npc[n] = "forward" /\ npc'[n] = "idle" /\ narg[n].hi # 0)
            => sends' = [sends EXCEPT ![channels[narg[n].id]] = @ + 1]]_vars

\* two deliveries reached the sink of channel 1, the later one bearing the
\* identifier 2^32 + 1
C20_Witness ==
  /\ last.op = "channel"
  /\ last.outcome = "forwarded"
  /\ last.hi = 1
  /\ last.id = 1
  /\ sends[SinkOf(1)] = 2
  /\ 1 \in DOMAIN channels

====
